---- MODULE Spec2Model ----
(***************************************************************************)
(* A model of the lru_cache decorator of dec_lib.py / dec.py (the two      *)
(* files carry the same cache code): the key builder _make_key, the three  *)
(* wrappers chosen by maxsize (0, None, N > 0), cache_info and             *)
(* cache_clear, run by several threads.                                    *)
(*                                                                         *)
(* Statements executed under "with lock" are steps of the thread that owns *)
(* the lock.  The zero-capacity and the unbounded wrapper take no lock, so *)
(* their statements interleave freely and "stats[i] += 1" is a read step   *)
(* followed by a write step.                                               *)
(***************************************************************************)
EXTENDS Integers, Sequences, FiniteSets, TLC

\* ------------------------------------------------------------------ bounds
MaxSize == 2        \* largest bounded capacity explored
MaxOps == 3         \* operations begun in the concurrent specification
MaxSeqOps == 4      \* operations begun in the sequential specification
MaxErrOps == 3      \* calls begun in the sequential specification with failures
MaxLiveOps == 3     \* operations begun in the specification with fairness

\* --------------------------------------------------------- Python values
\* A value is [t |-> type name, v |-> payload].  The float n.0 is PyFloat(n);
\* a str is numbered in alphabetical order, so that < on v sorts names.
PyInt(n) == [t |-> "int", v |-> n]
PyFloat(n) == [t |-> "float", v |-> n]
PyStr(n) == [t |-> "str", v |-> n]
PyList(n) == [t |-> "list", v |-> n]

TypeCode(tn) ==
  CASE tn = "int" -> 1
    [] tn = "float" -> 2
    [] tn = "str" -> 3
    [] tn = "list" -> 5
    [] OTHER -> 4

\* type(v): a type object
TypeOf(x) == [t |-> "type", v |-> TypeCode(x.t)]

\* kwd_mark = (object(),): the one object no argument can be
kwd_mark == <<[t |-> "object", v |-> 0]>>

\* fasttypes = {int, str, frozenset, type(None)}
fasttypes == {"int", "str", "frozenset", "NoneType"}

Numeric(x) == x.t \in {"int", "float"}

\* Python's ==: numbers compare by value across int and float, everything
\* else by type and value.
PyEq(a, b) ==
  IF Numeric(a) /\ Numeric(b) THEN a.v = b.v ELSE a.t = b.t /\ a.v = b.v

\* hash(x): a list has no hash, hash([]) raises TypeError
Hashable(x) == x.t # "list"

\* ----------------------------------------------------------- key builder
\* A call is [args |-> sequence of values, kwds |-> sequence of <<name, value>>
\* in the order the caller wrote them, names distinct].
RECURSIVE InsertItem(_, _)
InsertItem(item, s) ==
  IF s = <<>> THEN <<item>>
  ELSE IF item[1].v < Head(s)[1].v THEN <<item>> \o s
  ELSE <<Head(s)>> \o InsertItem(item, Tail(s))

unsorted(items) == items

\* sorted(kwds.items()): the items by name
RECURSIVE sorted(_)
sorted(items) ==
  IF items = <<>> THEN <<>> ELSE InsertItem(Head(items), sorted(Tail(items)))

\* for item in sorted_items: key += item
RECURSIVE Flatten(_)
Flatten(items) ==
  IF items = <<>> THEN <<>>
  ELSE <<Head(items)[1], Head(items)[2]>> \o Flatten(Tail(items))

TypesOf(vals) == [i \in 1..Len(vals) |-> TypeOf(vals[i])]
ItemValues(items) == [i \in 1..Len(items) |-> items[i][2]]

\* A key is [kind, items]: kind "value" is the argument object itself (the
\* fast path), "HashedSeq" a _HashedSeq (a list), "tuple" the args tuple.
HashedSeq(tup) == [kind |-> "HashedSeq", items |-> tup]

KwdPart(kwds) ==
  IF kwds # <<>> THEN kwd_mark \o Flatten(sorted(kwds)) ELSE <<>>

TypePart(args, kwds) ==
  TypesOf(args) \o (IF kwds # <<>> THEN TypesOf(ItemValues(sorted(kwds))) ELSE <<>>)

make_key(args, kwds, typed) ==
  LET key == args \o KwdPart(kwds)
  IN  IF typed THEN HashedSeq(key \o TypePart(args, kwds))
      ELSE IF Len(key) = 1 /\ key[1].t \in fasttypes
           THEN [kind |-> "value", items |-> <<key[1]>>]
           ELSE HashedSeq(key)

\* hash(tup), as _HashedSeq.__init__ and the dict take it: it raises
\* TypeError when an item has no hash
HashRaises(tup) == \E i \in 1..Len(tup) : ~Hashable(tup[i])

\* _make_key raises: the fast path returns before any hash is taken, and
\* only for the hashable fasttypes; otherwise _HashedSeq(key) hashes the tuple
make_key_raises(args, kwds, typed) == HashRaises(args \o KwdPart(kwds))

SeqEq(s, r) ==
  /\ Len(s) = Len(r)
  /\ \A i \in 1..Len(s) : PyEq(s[i], r[i])

\* == on keys, as the dict applies it.  Equal keys of these kinds have equal
\* hashes, so a dict lookup is decided by ==.  A list equals neither a tuple
\* nor an int or str.
KeyEq(k1, k2) ==
  /\ k1.kind = k2.kind
  /\ SeqEq(k1.items, k2.items)

\* ------------------------------------------------------------------ state
Threads == {"t1", "t2"}
NoThread == "none"

\* maxsize=None, the unbounded cache
None == -1
Sizes == (0..MaxSize) \cup {None}

NoKey == [kind |-> "None", items |-> <<>>]      \* a link's KEY of None
NoVal == 0                                      \* a RESULT of None
NoLink == -1000                                 \* cache_get(key) = None
NoInfo == [hits |-> -1, misses |-> -1, maxsize |-> -1, currsize |-> -1]
NoCall == [kind |-> "none", args |-> <<>>, kwds |-> <<>>]
NoPre == [hits |-> 0, misses |-> 0, currsize |-> 0, invoked |-> 0,
          present |-> FALSE, value |-> NoVal,
          cache |-> {}, links |-> <<>>, root |-> 0, after |-> "idle", last |-> NoCall]
NoPath == [branch |-> "", made |-> NoVal, size |-> 0, rival |-> FALSE,
           cleared |-> FALSE]

VARIABLES
  maxsize,        \* lru_cache's maxsize
  typed,          \* lru_cache's typed
  cache,          \* the dict: a set of [key, val]; val is a link (bounded) or a result
  links,          \* the list cells [prev, next, key, result], by identity
  nonlocal_root,  \* the identity of the root cell
  stats,          \* [hits, misses]
  lock,           \* the RLock's owner
  pc,             \* where each thread is
  call,           \* the operation each thread is in
  key,            \* wrapper's local key
  result,         \* wrapper's local result
  tmp,            \* the counter value read by an unlocked "+= 1"
  ret,            \* the value the thread's last call returned
  info,           \* the CacheInfo the thread's last cache_info returned
  nops,           \* history: operations begun
  invoked,        \* history: invocations of user_function
  returned,       \* history: invocations of user_function that returned
  lru,            \* history: the cached keys, least recently accessed first
  path,           \* history: per thread, the branch its call took, the value its
                  \* own invocation made, the size of the dict before it inserted,
                  \* whether another thread had then missed on the same key,
                  \* whether a cache_clear ran between its miss and its insertion
  hist,           \* history (sequential runs): the operations begun, in order
  pre,            \* history (sequential runs): the state the last call began in,
                  \* how the operation before it ended and what it was
  built,          \* history (sequential runs): the [call, key] pairs built so far
  counted         \* history: the calls that have passed their counting step
                  \* (stats[HITS] += 1 or stats[MISSES] += 1) since cache_clear
                  \* last began to empty the cache

config == <<maxsize, typed>>
shared == <<maxsize, typed, cache, links, nonlocal_root, stats, lock>>
locals == <<pc, call, key, result, tmp, ret, info>>
seqghost == <<hist, pre, built>>
ghost == <<nops, invoked, returned, lru, path, hist, pre, built, counted>>
vars == <<shared, locals, ghost>>

RootCell(r) == [prev |-> r, next |-> r, key |-> NoKey, result |-> NoVal]

Init ==
  /\ maxsize \in Sizes
  /\ typed \in BOOLEAN
  /\ cache = {}
  /\ links = [i \in {0} |-> RootCell(0)]
  /\ nonlocal_root = 0
  /\ stats = [hits |-> 0, misses |-> 0]
  /\ lock = NoThread
  /\ pc = [t \in Threads |-> "idle"]
  /\ call = [t \in Threads |-> NoCall]
  /\ key = [t \in Threads |-> NoKey]
  /\ result = [t \in Threads |-> NoVal]
  /\ tmp = [t \in Threads |-> 0]
  /\ ret = [t \in Threads |-> NoVal]
  /\ info = [t \in Threads |-> NoInfo]
  /\ nops = 0
  /\ invoked = 0
  /\ returned = 0
  /\ lru = <<>>
  /\ path = [t \in Threads |-> NoPath]
  /\ hist = <<>>
  /\ pre = NoPre
  /\ built = {}
  /\ counted = 0

\* ------------------------------------------------------------ the dict
Stored(c, k) == {e \in c : KeyEq(e.key, k)}

\* key in cache
CacheHas(c, k) == Stored(c, k) # {}

\* cache.get(key): the value under an equal key, or None
cache_get(c, k) ==
  IF CacheHas(c, k) THEN (CHOOSE e \in Stored(c, k) : TRUE).val ELSE NoLink

CacheSetAlone(c, k, v) == {[key |-> k, val |-> v]}

\* cache[key] = v: an equal key keeps its key object and takes the new value
CacheSet(c, k, v) ==
  IF CacheHas(c, k)
  THEN {IF KeyEq(e.key, k) THEN [e EXCEPT !.val = v] ELSE e : e \in c}
  ELSE c \cup {[key |-> k, val |-> v]}

\* del cache[key]
CacheDel(c, k) == c \ Stored(c, k)

FullOffByOne(c, n) == Cardinality(c) > n

\* _len(cache) >= maxsize
Full(c, n) == Cardinality(c) >= n

\* --------------------------------------------------------------- the ring
\* A new list object: the least identity not in use.
Fresh(L) ==
  CHOOSE i \in 0..Cardinality(DOMAIN L) :
    /\ i \notin DOMAIN L
    /\ \A j \in 0..Cardinality(DOMAIN L) : j \notin DOMAIN L => i <= j

PromoteNot(L, root, link) == L

\* The hit path's relinking, statement by statement: unlink the cell, then
\* link it in before the root.
Promote(L, root, link) ==
  LET link_prev == L[link].prev
      link_next == L[link].next
      L1 == [L EXCEPT ![link_prev].next = link_next]
      L2 == [L1 EXCEPT ![link_next].prev = link_prev]
      last == L2[root].prev
      L3 == [L2 EXCEPT ![last].next = link]
      L4 == [L3 EXCEPT ![root].prev = link]
      L5 == [L4 EXCEPT ![link].prev = last]
  IN  [L5 EXCEPT ![link].next = root]

\* The full cache's miss: the old root takes the new key and result, the
\* oldest cell becomes the root and is emptied.
RecycleRoot(L, root) == L[root].next

\* oldkey = root[KEY], read after the old root took the new key
RecycleOldKey(L, root, k) ==
  [L EXCEPT ![root].key = k][RecycleRoot(L, root)].key

RecycleKeepsOldKey(L, root, k, r) ==
  [[L EXCEPT ![root].key = k] EXCEPT ![root].result = r]

RecycleLinks(L, root, k, r) ==
  LET L1 == [L EXCEPT ![root].key = k]
      L2 == [L1 EXCEPT ![root].result = r]
      newroot == RecycleRoot(L2, root)
      L3 == [L2 EXCEPT ![newroot].key = NoKey]
  IN  [L3 EXCEPT ![newroot].result = NoVal]

AppendAfterRoot(L, root, new, k, r) ==
  LET first == L[root].next
      L1 == [i \in DOMAIN L \cup {new} |->
               IF i = new THEN [prev |-> root, next |-> first, key |-> k, result |-> r]
               ELSE L[i]]
      L2 == [L1 EXCEPT ![first].prev = new]
  IN  [L2 EXCEPT ![root].next = new]

\* The miss below capacity: a new cell between the last cell and the root.
AppendLinks(L, root, new, k, r) ==
  LET last == L[root].prev
      L1 == [i \in DOMAIN L \cup {new} |->
               IF i = new THEN [prev |-> last, next |-> root, key |-> k, result |-> r]
               ELSE L[i]]
      L2 == [L1 EXCEPT ![last].next = new]
  IN  [L2 EXCEPT ![root].prev = new]

RacedOverwrite(L, link, r) == [L EXCEPT ![link].result = r]

\* The key was added while the lock was released: pass
RacedPass(L, link, r) == L

\* The cells met walking NEXT from the root, the root left out, oldest first.
RECURSIVE Walk(_, _, _, _)
Walk(L, root, at, n) ==
  IF at = root \/ n = 0 \/ at \notin DOMAIN L THEN <<>>
  ELSE <<at>> \o Walk(L, root, L[at].next, n - 1)

Ring(L, root) == Walk(L, root, L[root].next, Cardinality(DOMAIN L))

\* The cells met walking PREV from the root, newest first.
RECURSIVE WalkBack(_, _, _, _)
WalkBack(L, root, at, n) ==
  IF at = root \/ n = 0 \/ at \notin DOMAIN L THEN <<>>
  ELSE <<at>> \o WalkBack(L, root, L[at].prev, n - 1)

RingBack(L, root) == WalkBack(L, root, L[root].prev, Cardinality(DOMAIN L))

\* ----------------------------------------------------- history operators
RECURSIVE Without(_, _)
Without(s, k) ==
  IF s = <<>> THEN <<>>
  ELSE IF KeyEq(Head(s), k) THEN Without(Tail(s), k)
  ELSE <<Head(s)>> \o Without(Tail(s), k)

\* An access of k: k becomes the most recently accessed key.
Touch(s, k) == Append(Without(s, k), k)

\* An insertion into a full cache: the least recently accessed key goes.
Evict(s, k) == Append(IF s = <<>> THEN <<>> ELSE Tail(s), k)

Took(t, b) == [path EXCEPT ![t].branch = b]
\* Another thread has missed on t's key and has not yet come back for the lock.
Rival(t) ==
  \E u \in Threads \ {t} :
    /\ pc[u] \in {"compute", "wait2"}
    /\ path[u].branch = "miss"
    /\ KeyEq(key[u], key[t])

Inserted(t, b) ==
  [path EXCEPT ![t].branch = b, ![t].size = Cardinality(cache), ![t].rival = Rival(t)]

Bounded == maxsize > 0
Unbounded == maxsize = None
Resting(t) == pc[t] \in {"idle", "done", "raised"}

\* ------------------------------------------------------------- operations
\* wrapper(*args, **kwds) is entered: the key is built before any lock is
\* taken; the zero-capacity wrapper builds none.
WrapperKey(args, kwds) ==
  IF maxsize = 0 THEN NoKey
  ELSE IF Unbounded THEN make_key(args, kwds, typed)
  ELSE IF kwds # <<>> \/ typed THEN make_key(args, kwds, typed)
  ELSE [kind |-> "tuple", items |-> args]

\* An operation is entered by a thread that is in none.
Enter(t, c, k, at) ==
  /\ Resting(t)
  /\ call' = [call EXCEPT ![t] = c]
  /\ key' = [key EXCEPT ![t] = k]
  /\ pc' = [pc EXCEPT ![t] = at]
  /\ result' = [result EXCEPT ![t] = NoVal]
  /\ ret' = [ret EXCEPT ![t] = NoVal]
  /\ info' = [info EXCEPT ![t] = NoInfo]
  /\ tmp' = [tmp EXCEPT ![t] = 0]
  /\ path' = [path EXCEPT ![t] = NoPath]
  /\ nops' = nops + 1
  /\ UNCHANGED <<shared, invoked, returned, lru, counted>>

\* The wrapper calls make_key (unbounded; bounded with kwds or typed).
CallsMakeKey(kwds) == Unbounded \/ (Bounded /\ (kwds # <<>> \/ typed))

\* make_key raises TypeError: the exception leaves the wrapper before any
\* lock is taken and before user_function is called.
KeyRaises(args, kwds) == CallsMakeKey(kwds) /\ make_key_raises(args, kwds, typed)

wrapper(t, c) ==
  IF KeyRaises(c.args, c.kwds)
  THEN Enter(t, c, NoKey, "raised")
  ELSE Enter(t, c, WrapperKey(c.args, c.kwds),
             IF maxsize = 0 THEN "compute" ELSE IF Unbounded THEN "get" ELSE "wait1")

cache_clear(t) ==
  Enter(t, [kind |-> "clear", args |-> <<>>, kwds |-> <<>>], NoKey, "waitclear")

cache_info(t) ==
  Enter(t, [kind |-> "info", args |-> <<>>, kwds |-> <<>>], NoKey, "waitinfo")

\* with lock: the thread waits until the lock is free and takes it
AfterAcquire(p) ==
  CASE p = "wait1" -> "in1"
    [] p = "wait2" -> "in2"
    [] p = "waitclear" -> "clear1"
    [] p = "waitinfo" -> "ininfo"

Acquire(t) ==
  /\ pc[t] \in {"wait1", "wait2", "waitclear", "waitinfo"}
  /\ lock = NoThread
  /\ lock' = t
  /\ pc' = [pc EXCEPT ![t] = AfterAcquire(pc[t])]
  /\ UNCHANGED <<config, cache, links, nonlocal_root, stats>>
  /\ UNCHANGED <<call, key, result, tmp, ret, info, ghost>>

HitCountedAsMiss(s) == [s EXCEPT !.misses = @ + 1]

\* stats[HITS] += 1
HitStats(s) == [s EXCEPT !.hits = @ + 1]

\* bounded wrapper, first locked section, link is not None
Hit(t) ==
  /\ pc[t] = "in1" /\ lock = t
  /\ ~HashRaises(key[t].items)
  /\ CacheHas(cache, key[t])
  /\ LET link == cache_get(cache, key[t])
     IN  /\ links' = Promote(links, nonlocal_root, link)
         /\ key' = [key EXCEPT ![t] = links[link].key]
         /\ result' = [result EXCEPT ![t] = links[link].result]
         /\ ret' = [ret EXCEPT ![t] = links[link].result]
  /\ stats' = HitStats(stats)
  /\ lock' = NoThread
  /\ pc' = [pc EXCEPT ![t] = "done"]
  /\ lru' = Touch(lru, key[t])
  /\ path' = Took(t, "hit")
  /\ UNCHANGED <<config, cache, nonlocal_root>>
  /\ counted' = counted + 1
  /\ UNCHANGED <<call, tmp, info, nops, invoked, returned, seqghost>>

MissKeepsLock(t) ==
  /\ pc[t] = "in1" /\ lock = t
  /\ ~HashRaises(key[t].items)
  /\ ~CacheHas(cache, key[t])
  /\ pc' = [pc EXCEPT ![t] = "compute"]
  /\ path' = Took(t, "miss")
  /\ UNCHANGED <<config, cache, links, nonlocal_root, stats, lock>>
  /\ UNCHANGED <<call, key, result, tmp, ret, info>>
  /\ UNCHANGED <<nops, invoked, returned, lru, counted, seqghost>>

\* bounded wrapper, first locked section, link is None: the lock is
\* released before user_function is called
Miss(t) ==
  /\ pc[t] = "in1" /\ lock = t
  /\ ~HashRaises(key[t].items)
  /\ ~CacheHas(cache, key[t])
  /\ lock' = NoThread
  /\ pc' = [pc EXCEPT ![t] = "compute"]
  /\ path' = Took(t, "miss")
  /\ UNCHANGED <<config, cache, links, nonlocal_root, stats>>
  /\ UNCHANGED <<call, key, result, tmp, ret, info>>
  /\ UNCHANGED <<nops, invoked, returned, lru, counted, seqghost>>

\* bounded wrapper, first locked section: the key is the args tuple and
\* cache_get(key) hashes it; TypeError leaves the with block, which releases
\* the lock
HashFail(t) ==
  /\ pc[t] = "in1" /\ lock = t
  /\ HashRaises(key[t].items)
  /\ lock' = NoThread
  /\ pc' = [pc EXCEPT ![t] = "raised"]
  /\ path' = Took(t, "unhashable")
  /\ UNCHANGED <<config, cache, links, nonlocal_root, stats>>
  /\ UNCHANGED <<call, key, result, tmp, ret, info>>
  /\ UNCHANGED <<nops, invoked, returned, lru, counted, seqghost>>

\* result = user_function(*args, **kwds) returns; every invocation returns
\* a value of its own
AfterCompute ==
  IF maxsize = 0 THEN "miss_read" ELSE IF Unbounded THEN "set" ELSE "wait2"

Compute(t) ==
  /\ pc[t] = "compute"
  /\ invoked' = invoked + 1
  /\ returned' = returned + 1
  /\ result' = [result EXCEPT ![t] = invoked + 1]
  /\ path' = [path EXCEPT ![t].made = invoked + 1]
  /\ pc' = [pc EXCEPT ![t] = AfterCompute]
  /\ UNCHANGED <<shared, call, key, tmp, ret, info, nops, lru, counted, seqghost>>

\* user_function raises: the exception leaves the wrapper
Raise(t) ==
  /\ pc[t] = "compute"
  /\ invoked' = invoked + 1
  /\ pc' = [pc EXCEPT ![t] = "raised"]
  /\ path' = Took(t, "raised")
  /\ UNCHANGED <<shared, call, key, result, tmp, ret, info>>
  /\ UNCHANGED <<nops, returned, lru, counted, seqghost>>

MissReturnStored(t) ==
  IF CacheHas(cache, key[t]) THEN links[cache_get(cache, key[t])].result
  ELSE result[t]

\* return result
MissReturn(t) == result[t]

\* The second locked section ends: misses is counted, the lock released and
\* the computed result returned.
Finish(t) ==
  /\ stats' = [stats EXCEPT !.misses = @ + 1]
  /\ lock' = NoThread
  /\ ret' = [ret EXCEPT ![t] = MissReturn(t)]
  /\ pc' = [pc EXCEPT ![t] = "done"]
  /\ counted' = counted + 1
  /\ UNCHANGED <<config, call, key, result, tmp, info>>
  /\ UNCHANGED <<nops, invoked, returned, seqghost>>

InsertRacedPromotes(t) ==
  /\ pc[t] = "in2" /\ lock = t
  /\ CacheHas(cache, key[t])
  /\ links' = Promote(links, nonlocal_root, cache_get(cache, key[t]))
  /\ lru' = Touch(lru, key[t])
  /\ path' = Inserted(t, "raced")
  /\ Finish(t)
  /\ UNCHANGED <<cache, nonlocal_root>>

InsertRacedUncounted(t) ==
  /\ pc[t] = "in2" /\ lock = t
  /\ CacheHas(cache, key[t])
  /\ links' = RacedPass(links, cache_get(cache, key[t]), result[t])
  /\ path' = Inserted(t, "raced")
  /\ lock' = NoThread
  /\ ret' = [ret EXCEPT ![t] = MissReturn(t)]
  /\ pc' = [pc EXCEPT ![t] = "done"]
  /\ counted' = counted + 1
  /\ UNCHANGED <<config, cache, nonlocal_root, stats>>
  /\ UNCHANGED <<call, key, result, tmp, info>>
  /\ UNCHANGED <<nops, invoked, returned, lru, seqghost>>

\* second locked section, key in cache: pass
InsertRaced(t) ==
  /\ pc[t] = "in2" /\ lock = t
  /\ CacheHas(cache, key[t])
  /\ links' = RacedPass(links, cache_get(cache, key[t]), result[t])
  /\ path' = Inserted(t, "raced")
  /\ Finish(t)
  /\ UNCHANGED <<cache, nonlocal_root, lru>>

\* second locked section, the cache is full
InsertRecycle(t) ==
  /\ pc[t] = "in2" /\ lock = t
  /\ ~CacheHas(cache, key[t])
  /\ Full(cache, maxsize)
  /\ LET oldroot == nonlocal_root
         root == RecycleRoot(links, oldroot)
         oldkey == RecycleOldKey(links, oldroot, key[t])
     IN  /\ links' = RecycleLinks(links, oldroot, key[t], result[t])
         /\ nonlocal_root' = root
         /\ cache' = CacheSet(CacheDel(cache, oldkey), key[t], oldroot)
  /\ lru' = Evict(lru, key[t])
  /\ path' = Inserted(t, "recycle")
  /\ Finish(t)

\* second locked section, there is room
InsertAppend(t) ==
  /\ pc[t] = "in2" /\ lock = t
  /\ ~CacheHas(cache, key[t])
  /\ ~Full(cache, maxsize)
  /\ LET link == Fresh(links)
     IN  /\ links' = AppendLinks(links, nonlocal_root, link, key[t], result[t])
         /\ cache' = CacheSet(cache, key[t], link)
  /\ lru' = Append(lru, key[t])
  /\ path' = Inserted(t, "append")
  /\ Finish(t)
  /\ UNCHANGED nonlocal_root

\* unbounded wrapper: result = cache_get(key, root) finds the key
Get(t) ==
  /\ pc[t] = "get"
  /\ CacheHas(cache, key[t])
  /\ result' = [result EXCEPT ![t] = cache_get(cache, key[t])]
  /\ pc' = [pc EXCEPT ![t] = "hit_read"]
  /\ path' = Took(t, "hit")
  /\ UNCHANGED <<shared, call, key, tmp, ret, info>>
  /\ UNCHANGED <<nops, invoked, returned, lru, counted, seqghost>>

\* unbounded wrapper: result is root, the not-found sentinel
GetMiss(t) ==
  /\ pc[t] = "get"
  /\ ~CacheHas(cache, key[t])
  /\ pc' = [pc EXCEPT ![t] = "compute"]
  /\ path' = Took(t, "miss")
  /\ UNCHANGED <<shared, call, key, result, tmp, ret, info>>
  /\ UNCHANGED <<nops, invoked, returned, lru, counted, seqghost>>

\* stats[HITS] += 1 without the lock: the read
HitRead(t) ==
  /\ pc[t] = "hit_read"
  /\ tmp' = [tmp EXCEPT ![t] = stats.hits]
  /\ pc' = [pc EXCEPT ![t] = "hit_write"]
  /\ UNCHANGED <<shared, call, key, result, ret, info, ghost>>

\* stats[HITS] += 1 without the lock: the write; return result
HitWrite(t) ==
  /\ pc[t] = "hit_write"
  /\ stats' = [stats EXCEPT !.hits = tmp[t] + 1]
  /\ tmp' = [tmp EXCEPT ![t] = 0]
  /\ ret' = [ret EXCEPT ![t] = result[t]]
  /\ pc' = [pc EXCEPT ![t] = "done"]
  /\ counted' = counted + 1
  /\ UNCHANGED <<config, cache, links, nonlocal_root, lock>>
  /\ UNCHANGED <<call, key, result, info>>
  /\ UNCHANGED <<nops, invoked, returned, lru, path, seqghost>>

\* unbounded wrapper: cache[key] = result
Set(t) ==
  /\ pc[t] = "set"
  /\ cache' = CacheSet(cache, key[t], result[t])
  /\ pc' = [pc EXCEPT ![t] = "miss_read"]
  /\ UNCHANGED <<config, links, nonlocal_root, stats, lock>>
  /\ UNCHANGED <<call, key, result, tmp, ret, info, ghost>>

\* stats[MISSES] += 1 without the lock (zero-capacity and unbounded): the read
MissRead(t) ==
  /\ pc[t] = "miss_read"
  /\ tmp' = [tmp EXCEPT ![t] = stats.misses]
  /\ pc' = [pc EXCEPT ![t] = "miss_write"]
  /\ UNCHANGED <<shared, call, key, result, ret, info, ghost>>

\* stats[MISSES] += 1 without the lock: the write; return result
MissWrite(t) ==
  /\ pc[t] = "miss_write"
  /\ stats' = [stats EXCEPT !.misses = tmp[t] + 1]
  /\ tmp' = [tmp EXCEPT ![t] = 0]
  /\ ret' = [ret EXCEPT ![t] = result[t]]
  /\ pc' = [pc EXCEPT ![t] = "done"]
  /\ counted' = counted + 1
  /\ UNCHANGED <<config, cache, links, nonlocal_root, lock>>
  /\ UNCHANGED <<call, key, result, info>>
  /\ UNCHANGED <<nops, invoked, returned, lru, path, seqghost>>

\* A call of the bounded wrapper that missed and has not yet taken the lock
\* again: its user_function is running or has just returned.
InFlight(u) == Bounded /\ pc[u] \in {"compute", "wait2"} /\ path[u].branch = "miss"

ClearedUnder(t) ==
  [u \in Threads |->
     IF u # t /\ InFlight(u) THEN [path[u] EXCEPT !.cleared = TRUE] ELSE path[u]]

\* cache_clear: cache.clear()
ClearCache(t) ==
  /\ pc[t] = "clear1" /\ lock = t
  /\ cache' = {}
  /\ lru' = <<>>
  /\ path' = ClearedUnder(t)
  /\ pc' = [pc EXCEPT ![t] = "clear2"]
  /\ UNCHANGED <<config, links, nonlocal_root, stats, lock>>
  /\ counted' = 0
  /\ UNCHANGED <<call, key, result, tmp, ret, info>>
  /\ UNCHANGED <<nops, invoked, returned, seqghost>>

ClearedLinksStale(root) == links

\* cache_clear: root[:] = [root, root, None, None]; the other cells are
\* no longer referenced
ClearedLinks(root) == [i \in {root} |-> RootCell(root)]

ClearRoot(t) ==
  /\ pc[t] = "clear2" /\ lock = t
  /\ links' = ClearedLinks(nonlocal_root)
  /\ pc' = [pc EXCEPT ![t] = "clear3"]
  /\ UNCHANGED <<config, cache, nonlocal_root, stats, lock>>
  /\ UNCHANGED <<call, key, result, tmp, ret, info, ghost>>

ClearedHitsOnly == [stats EXCEPT !.hits = 0]

\* cache_clear: stats[:] = [0, 0]
ClearedStats == [hits |-> 0, misses |-> 0]

\* cache_clear's last statement, and the lock is released
ClearStats(t) ==
  /\ pc[t] = "clear3" /\ lock = t
  /\ stats' = ClearedStats
  /\ lock' = NoThread
  /\ pc' = [pc EXCEPT ![t] = "done"]
  /\ UNCHANGED <<config, cache, links, nonlocal_root>>
  /\ UNCHANGED <<call, key, result, tmp, ret, info, ghost>>

\* cache_info: _CacheInfo(stats[HITS], stats[MISSES], maxsize, len(cache))
CacheInfo ==
  [hits |-> stats.hits, misses |-> stats.misses, maxsize |-> maxsize,
   currsize |-> Cardinality(cache)]

InfoKeepsLock(t) ==
  /\ pc[t] = "ininfo" /\ lock = t
  /\ info' = [info EXCEPT ![t] = CacheInfo]
  /\ pc' = [pc EXCEPT ![t] = "done"]
  /\ UNCHANGED <<config, cache, links, nonlocal_root, stats, lock>>
  /\ UNCHANGED <<call, key, result, tmp, ret, ghost>>

\* cache_info's with block: the snapshot is taken and the lock released
Info(t) ==
  /\ pc[t] = "ininfo" /\ lock = t
  /\ info' = [info EXCEPT ![t] = CacheInfo]
  /\ lock' = NoThread
  /\ pc' = [pc EXCEPT ![t] = "done"]
  /\ UNCHANGED <<config, cache, links, nonlocal_root, stats>>
  /\ UNCHANGED <<call, key, result, tmp, ret, ghost>>

\* One step of an operation under way.
Step(t) ==
  \/ Acquire(t)
  \/ Hit(t)
  \/ Miss(t)
  \/ Compute(t)
  \/ Raise(t)
  \/ InsertRaced(t)
  \/ InsertRecycle(t)
  \/ InsertAppend(t)
  \/ Get(t)
  \/ GetMiss(t)
  \/ HitRead(t)
  \/ HitWrite(t)
  \/ Set(t)
  \/ MissRead(t)
  \/ MissWrite(t)
  \/ ClearCache(t)
  \/ ClearRoot(t)
  \/ ClearStats(t)
  \/ Info(t)

\* ------------------------------------------------------------ the callers
\* A call of the wrapped function f.
F(args, kwds) == [kind |-> "call", args |-> args, kwds |-> kwds]

x == PyStr(24)
y == PyStr(25)

F1 == F(<<PyInt(1)>>, <<>>)                                \* f(1)
F3 == F(<<PyInt(3)>>, <<>>)                                \* f(3)
F3f == F(<<PyFloat(3)>>, <<>>)                             \* f(3.0)
Fxy == F(<<>>, <<<<x, PyInt(1)>>, <<y, PyInt(2)>>>>)       \* f(x=1, y=2)
Fyx == F(<<>>, <<<<y, PyInt(2)>>, <<x, PyInt(1)>>>>)       \* f(y=2, x=1)
Fxy3 == F(<<>>, <<<<x, PyInt(1)>>, <<y, PyInt(3)>>>>)      \* f(x=1, y=3)

Calls == {F1, F3, F3f}

\* Any threads, any interleaving.
Call(t) ==
  /\ nops < MaxOps
  /\ \E c \in Calls : wrapper(t, c)
  /\ UNCHANGED seqghost

Clear(t) ==
  /\ nops < MaxOps
  /\ cache_clear(t)
  /\ UNCHANGED seqghost

GetInfo(t) ==
  /\ nops < MaxOps
  /\ cache_info(t)
  /\ UNCHANGED seqghost

Next == \E t \in Threads : Call(t) \/ Clear(t) \/ GetInfo(t) \/ Step(t)

Spec == Init /\ [][Next]_vars

\* Fair scheduling, and a user_function that need not return.  Every thread
\* that can take a step of the wrapper's, cache_info's or cache_clear's own
\* code eventually takes one, and a thread that finds the lock free again and
\* again eventually gets it.  Nothing makes the call of user_function by the
\* thread Stuck return; the other thread's calls of user_function end.
Stuck == "t1"

\* A step of the cache's own code: any step but user_function's return or
\* exception.
OwnStep(t) == pc[t] # "compute" /\ Step(t)

\* user_function returns or raises.
UserStep(t) == Compute(t) \/ Raise(t)

Fairness ==
  /\ \A t \in Threads : WF_vars(OwnStep(t)) /\ SF_vars(Acquire(t))
  /\ \A t \in Threads \ {Stuck} : WF_vars(UserStep(t))

LiveCalls == {F1, F3}

LiveCall(t) ==
  /\ nops < MaxLiveOps
  /\ \E c \in LiveCalls : wrapper(t, c)
  /\ UNCHANGED seqghost

LiveClear(t) ==
  /\ nops < MaxLiveOps
  /\ cache_clear(t)
  /\ UNCHANGED seqghost

LiveInfo(t) ==
  /\ nops < MaxLiveOps
  /\ cache_info(t)
  /\ UNCHANGED seqghost

LiveNext ==
  \E t \in Threads : LiveCall(t) \/ LiveClear(t) \/ LiveInfo(t) \/ Step(t)

SpecLive == Init /\ [][LiveNext]_vars /\ Fairness

\* One caller: every operation returns before the next begins.
T1 == "t1"

\* The result stored under key k.
StoredResult(k) ==
  IF ~CacheHas(cache, k) THEN NoVal
  ELSE IF Bounded THEN links[cache_get(cache, k)].result
  ELSE cache_get(cache, k)

Snapshot(c) ==
  LET k == WrapperKey(c.args, c.kwds)
  IN  [hits |-> stats.hits, misses |-> stats.misses, currsize |-> Cardinality(cache),
       invoked |-> invoked, present |-> CacheHas(cache, k), value |-> StoredResult(k),
       cache |-> cache, links |-> links, root |-> nonlocal_root,
       after |-> pc[T1], last |-> call[T1]]

SeqCalls == Calls \cup {Fxy, Fyx, Fxy3}

SeqCall ==
  /\ nops < MaxSeqOps
  /\ \E c \in SeqCalls :
       /\ wrapper(T1, c)
       /\ hist' = Append(hist, c)
       /\ pre' = Snapshot(c)
       /\ built' = built \cup {[call |-> c, key |-> WrapperKey(c.args, c.kwds)]}

SeqClear ==
  /\ nops < MaxSeqOps
  /\ cache_clear(T1)
  /\ hist' = Append(hist, [kind |-> "clear", args |-> <<>>, kwds |-> <<>>])
  /\ UNCHANGED <<pre, built>>

SeqInfo ==
  /\ nops < MaxSeqOps
  /\ cache_info(T1)
  /\ hist' = Append(hist, [kind |-> "info", args |-> <<>>, kwds |-> <<>>])
  /\ UNCHANGED <<pre, built>>

\* The steps one caller alone can take when user_function returns: no racing
\* insertion, no exception.
SeqStep ==
  \/ Acquire(T1)
  \/ Hit(T1)
  \/ Miss(T1)
  \/ Compute(T1)
  \/ InsertRecycle(T1)
  \/ InsertAppend(T1)
  \/ Get(T1)
  \/ GetMiss(T1)
  \/ HitRead(T1)
  \/ HitWrite(T1)
  \/ Set(T1)
  \/ MissRead(T1)
  \/ MissWrite(T1)
  \/ ClearCache(T1)
  \/ ClearRoot(T1)
  \/ ClearStats(T1)
  \/ Info(T1)

SeqNext == SeqCall \/ SeqClear \/ SeqInfo \/ SeqStep

SpecSeq == Init /\ [][SeqNext]_vars

\* One caller, whose user_function may raise and whose arguments may have no
\* hash.
FL == F(<<PyList(0)>>, <<>>)                               \* f([])

ErrCalls == {F1, F3, FL}

ErrCall ==
  /\ nops < MaxErrOps
  /\ \E c \in ErrCalls :
       /\ wrapper(T1, c)
       /\ hist' = Append(hist, c)
       /\ pre' = Snapshot(c)
       /\ built' = IF KeyRaises(c.args, c.kwds) THEN built
                   ELSE built \cup {[call |-> c, key |-> WrapperKey(c.args, c.kwds)]}

ErrStep ==
  \/ Acquire(T1)
  \/ Hit(T1)
  \/ Miss(T1)
  \/ HashFail(T1)
  \/ Compute(T1)
  \/ Raise(T1)
  \/ InsertRecycle(T1)
  \/ InsertAppend(T1)
  \/ Get(T1)
  \/ GetMiss(T1)
  \/ HitRead(T1)
  \/ HitWrite(T1)
  \/ Set(T1)
  \/ MissRead(T1)
  \/ MissWrite(T1)

ErrNext == ErrCall \/ ErrStep

SpecErr == Init /\ [][ErrNext]_vars

\* ------------------------------------------------------------- the claims
KeysOf(c) == {e.key : e \in c}
Covers(S, T) == \A a \in S : \E b \in T : KeyEq(a, b)
SameKeys(S, T) == Covers(S, T) /\ Covers(T, S)
SeqRange(s) == {s[i] : i \in 1..Len(s)}
K(c) == WrapperKey(c.args, c.kwds)
IsCall(t) == call[t].kind = "call"
Settled == pc[T1] = "done"
Caching == maxsize # 0

\* C1: in bounded mode, whatever the interleaving of calls and clears, the
\* dict never holds more than maxsize entries, and no cache_info reports a
\* currsize above maxsize.
C1_CapacityNeverExceeded ==
  Bounded =>
    /\ Cardinality(cache) <= maxsize
    /\ \A t \in Threads :
         (pc[t] = "done" /\ call[t].kind = "info") => info[t].currsize <= maxsize

\* C1's case: a full bounded cache that has taken more misses than it has
\* room for, after a thread inserted under the lock.
C1_Witness ==
  /\ Bounded
  /\ Cardinality(cache) = maxsize
  /\ stats.misses > maxsize
  /\ \E t \in Threads : pc[t] = "done" /\ path[t].branch \in {"recycle", "raced"}

\* The single caller's miss is about to insert a new key into the full cache.
C2_Evicting ==
  /\ Bounded
  /\ pc[T1] = "in2" /\ pc'[T1] = "done"
  /\ Cardinality(cache) = maxsize
  /\ ~Covers({key[T1]}, KeysOf(cache))

C2_EvictionStep ==
  C2_Evicting =>
    /\ lru # <<>>
    /\ SameKeys(KeysOf(cache'),
                {k \in KeysOf(cache) : ~KeyEq(k, Head(lru))} \cup {key[T1]})
    /\ Cardinality(cache') = maxsize

C2_Distinct(a, b, c) ==
  ~KeyEq(K(a), K(b)) /\ ~KeyEq(K(a), K(c)) /\ ~KeyEq(K(b), K(c))

C2_Examples ==
  (maxsize = 2 /\ Settled /\ Len(hist) \in {3, 4}
     /\ \A i \in 1..Len(hist) : hist[i].kind = "call") =>
    LET a == hist[1]
        b == hist[2]
        c == hist[3]
        d == hist[Len(hist)]
    IN  /\ (Len(hist) = 3 /\ C2_Distinct(a, b, c)) =>
             SameKeys(KeysOf(cache), {K(b), K(c)})
        /\ (Len(hist) = 4 /\ C2_Distinct(a, b, c) /\ d = a) =>
             ~pre.present /\ stats.misses = 4 /\ stats.hits = 0
        /\ (Len(hist) = 4 /\ C2_Distinct(a, b, d) /\ c = a) =>
             SameKeys(KeysOf(cache), {K(a), K(d)}) /\ stats.hits = 1

C2_Ordered ==
  (Bounded /\ lock = NoThread) => SameKeys(KeysOf(cache), SeqRange(lru))

\* C2: in a sequential run of a bounded cache, the cached keys are the keys
\* of the access history; a miss that inserts into the full cache removes
\* exactly the key whose last access (insertion or hit) is the oldest and
\* keeps every other key.  With maxsize = 2 and three different keys, A, B, C
\* leaves B and C and a following A is a miss, and A, B, A, C leaves A and C.
C2_EvictsLeastRecentlyUsed ==
  [][C2_EvictionStep /\ C2_Ordered' /\ C2_Examples']_vars

\* C2's case: maxsize = 2 and f(1), f(3), f(1), f(x=1, y=2) have returned;
\* f(3) is gone, f(1) is kept.
C2_Witness ==
  /\ maxsize = 2 /\ Settled
  /\ hist = <<F1, F3, F1, Fxy>>
  /\ SameKeys(KeysOf(cache), {K(F1), K(Fxy)})

\* C3: in a sequential run of a caching mode, a call returns with its key
\* cached under the value it returned, so a repetition that no clear or
\* eviction separates from it finds the key; a call that finds its key
\* does not invoke user_function, returns the stored value, adds one to
\* hits and leaves misses and the size alone.
C3_RepeatedCallHits ==
  (Caching /\ Settled /\ IsCall(T1)) =>
    /\ CacheHas(cache, K(call[T1]))
    /\ StoredResult(K(call[T1])) = ret[T1]
    /\ (Len(hist) >= 2 /\ hist[Len(hist) - 1] = hist[Len(hist)]) => pre.present
    /\ pre.present =>
         /\ invoked = pre.invoked
         /\ ret[T1] = pre.value
         /\ ret[T1] # NoVal
         /\ stats.hits = pre.hits + 1
         /\ stats.misses = pre.misses
         /\ Cardinality(cache) = pre.currsize

\* C3's case: f(3) was called twice in a row and the second call has returned.
C3_Witness ==
  /\ Caching /\ Settled
  /\ hist = <<F1, F3, F3>>
  /\ stats.hits = 1 /\ invoked = 2

\* Two threads missed on one key before either inserted: t came back first
\* and inserted while u was still away, then u came back and found the key.
RacePair(t, u) ==
  /\ Bounded /\ t # u
  /\ pc[t] = "done" /\ pc[u] = "done" /\ IsCall(t) /\ IsCall(u)
  /\ KeyEq(K(call[t]), K(call[u]))
  /\ path[t].branch \in {"append", "recycle"} /\ path[t].rival
  /\ path[u].branch = "raced"

\* The ring's cells that carry a key equal to k.
RingCellsOf(k) ==
  {i \in SeqRange(Ring(links, nonlocal_root)) : KeyEq(links[i].key, k)}

C4_OwnValues(t, u) ==
  /\ path[t].made # NoVal /\ path[u].made # NoVal
  /\ ret[t] = path[t].made
  /\ ret[u] = path[u].made

C4_OneEntry(t) ==
  /\ Cardinality(Stored(cache, K(call[t]))) = 1
  /\ Cardinality(RingCellsOf(K(call[t]))) = 1

\* C4 as written: after two threads missed together on one key, each
\* returned the value of its own invocation, the key has one entry and one
\* ring cell, and the dict has grown by exactly one.
C4_RaceGrowsByExactlyOne ==
  \A t, u \in Threads :
    RacePair(t, u) =>
      /\ C4_OwnValues(t, u)
      /\ C4_OneEntry(t)
      /\ Cardinality(cache) = path[t].size + 1

\* C4 as amended: the dict has grown by one if it had room, and is still at
\* maxsize if it was full (the first thread back recycled the oldest cell);
\* the rest as written.
C4_RaceInsertsOnce ==
  \A t, u \in Threads :
    RacePair(t, u) =>
      /\ C4_OwnValues(t, u)
      /\ C4_OneEntry(t)
      /\ Cardinality(cache) =
           IF path[t].size < maxsize THEN path[t].size + 1 ELSE maxsize

\* C4's case: the race is over and the dict had room when the first thread
\* back inserted.
C4_Witness ==
  \E t, u \in Threads :
    RacePair(t, u) /\ path[t].branch = "append" /\ Cardinality(cache) = path[t].size + 1

\* C5 as written: of the two results of a race, the one kept in the cache is
\* that of the thread that took the lock last.
C5_LastBackWins ==
  \A t, u \in Threads :
    RacePair(t, u) => StoredResult(K(call[t])) = path[u].made

\* C5 as amended: the result kept is that of the thread that took the lock
\* first after computing; the later thread's result is not in the cache, and
\* the later thread still returns its own.
C5_FirstBackWins ==
  \A t, u \in Threads :
    RacePair(t, u) =>
      /\ StoredResult(K(call[t])) = path[t].made
      /\ StoredResult(K(call[t])) # path[u].made
      /\ \A i \in DOMAIN links : links[i].result # path[u].made
      /\ ret[u] = path[u].made

\* C5's case: the race is over, the first thread's value is stored and the
\* second returned another.
C5_Witness ==
  \E t, u \in Threads :
    /\ RacePair(t, u)
    /\ StoredResult(K(call[t])) = ret[t]
    /\ ret[u] # ret[t]

\* C6: with maxsize = 0, when every operation so far was a call and all have
\* returned or raised, hits is 0, the dict is empty and misses is the number
\* of calls whose user_function returned.
C6_ZeroCapacityCountsEveryCall ==
  (maxsize = 0 /\ (\A t \in Threads : Resting(t)) /\ nops = invoked) =>
    /\ stats.hits = 0
    /\ Cardinality(cache) = 0
    /\ stats.misses = returned

Last == hist[Len(hist)]
EndsWith(a, b) ==
  /\ Len(hist) >= 2
  /\ hist[Len(hist) - 1].kind = a
  /\ hist[Len(hist)].kind = b

C7_Cleared ==
  /\ stats = [hits |-> 0, misses |-> 0]
  /\ cache = {}
  /\ DOMAIN links = {nonlocal_root}
  /\ links[nonlocal_root] = RootCell(nonlocal_root)

C7_AfterClear == (Settled /\ Last.kind = "clear") => C7_Cleared

C7_ThenInfo ==
  (Settled /\ EndsWith("clear", "info")) =>
    /\ info[T1] = [hits |-> 0, misses |-> 0, maxsize |-> maxsize, currsize |-> 0]
    /\ C7_Cleared

C7_SecondClear ==
  EndsWith("clear", "clear") => UNCHANGED <<cache, links, nonlocal_root, stats>>

\* C7: in a sequential run, when cache_clear has returned the counters are
\* zero, the dict is empty and the ring is the root alone, pointing to itself
\* with no key and no result; a cache_info that follows it reports
\* (0, 0, maxsize, 0); a cache_clear that follows it changes nothing of that
\* state; maxsize never changes.
C7_ClearResets ==
  [][C7_AfterClear' /\ C7_ThenInfo' /\ C7_SecondClear /\ maxsize' = maxsize]_vars

\* C7's case: a call filled the cache, then cache_clear and cache_info returned.
C7_Witness ==
  /\ Caching /\ Settled
  /\ Len(hist) = 3 /\ hist[1] = F1 /\ EndsWith("clear", "info")
  /\ info[T1].currsize = 0 /\ info[T1].misses = 0

\* C8: on a fresh cache with room for two entries, f(3) then f(3.0) gives,
\* with typed, two misses, two entries and no hit; without typed, one miss,
\* one hit, one entry, and user_function invoked once.
C8_TypeSensitivity ==
  (Settled /\ hist = <<F3, F3f>> /\ (Unbounded \/ maxsize >= 2)) =>
    IF typed
    THEN stats.misses = 2 /\ stats.hits = 0 /\ Cardinality(cache) = 2
    ELSE /\ stats.misses = 1 /\ stats.hits = 1 /\ Cardinality(cache) = 1
         /\ invoked = 1

\* The value passed under name n.
Named(c, n) == c.kwds[CHOOSE i \in 1..Len(c.kwds) : c.kwds[i][1] = n][2]
Names(c) == {c.kwds[i][1] : i \in 1..Len(c.kwds)}

\* Python finds the two calls' arguments equal.
ArgsEqual(c, d) ==
  /\ SeqEq(c.args, d.args)
  /\ Names(c) = Names(d)
  /\ \A n \in Names(c) : PyEq(Named(c, n), Named(d, n))

TypesEqual(c, d) ==
  /\ Len(c.args) = Len(d.args)
  /\ \A i \in 1..Len(c.args) : c.args[i].t = d.args[i].t
  /\ Names(c) = Names(d)
  /\ \A n \in Names(c) : Named(c, n).t = Named(d, n).t

\* C9: the keys built for two calls with equal arguments (and, with typed,
\* equal argument types) are equal.
C9_EqualArgumentsEqualKeys ==
  \A b1, b2 \in built :
    (Caching /\ ArgsEqual(b1.call, b2.call)
       /\ (typed => TypesEqual(b1.call, b2.call))) =>
      KeyEq(b1.key, b2.key)

\* The same call but for the order its named arguments are written in.
Reordered(c, d) ==
  /\ c.kwds # <<>>
  /\ c.args = d.args
  /\ Names(c) = Names(d)
  /\ \A n \in Names(c) : Named(c, n) = Named(d, n)

\* The same positional arguments and names, and some named value differs.
NamedValueDiffers(c, d) ==
  /\ SeqEq(c.args, d.args)
  /\ Names(c) = Names(d)
  /\ \E n \in Names(c) : ~PyEq(Named(c, n), Named(d, n))

\* C10: in a sequential run of a caching mode, the keys built for two calls
\* that differ only in the order of their named arguments are equal, and a
\* call that follows one it only reorders is a hit; the keys built for two
\* calls of which a named value differs are different.
C10_NamedArgumentOrder ==
  Caching =>
    /\ \A b1, b2 \in built :
         /\ Reordered(b1.call, b2.call) => KeyEq(b1.key, b2.key)
         /\ NamedValueDiffers(b1.call, b2.call) => ~KeyEq(b1.key, b2.key)
    /\ (Settled /\ EndsWith("call", "call")
          /\ Reordered(hist[Len(hist) - 1], Last)) =>
         /\ pre.present
         /\ stats.hits = pre.hits + 1
         /\ stats.misses = pre.misses
         /\ invoked = pre.invoked

\* C10's case: f(x=1, y=2) then f(y=2, x=1) have returned, the second as a hit.
C10_Witness ==
  /\ Caching /\ Settled
  /\ hist = <<Fxy, Fyx>>
  /\ stats.hits = 1 /\ stats.misses = 1
  /\ \E b1, b2 \in built : b1.call = Fxy /\ b2.call = Fyx /\ KeyEq(b1.key, b2.key)

\* Some argument of the call has no hash.
Unhashable(c) == HashRaises(c.args \o KwdPart(c.kwds))

\* The single caller's call ended with user_function's exception.
Failed == pc[T1] = "raised" /\ path[T1].branch = "raised"

\* The shared state is what it was when the single caller's call began.
AsBefore ==
  /\ cache = pre.cache
  /\ links = pre.links
  /\ nonlocal_root = pre.root
  /\ Ring(links, nonlocal_root) = Ring(pre.links, pre.root)
  /\ Cardinality(cache) = pre.currsize

\* The operation before this call was the same call, and it ended with
\* user_function's exception (in a caching mode a call with an unhashable
\* argument never reaches user_function).
RepeatsFailed ==
  /\ Len(hist) >= 2 /\ pre.after = "raised" /\ pre.last = call[T1]
  /\ (maxsize = 0 \/ ~Unhashable(call[T1]))

\* C11: in every mode, in a sequential run, when user_function raises, the
\* call ends with the exception and returns no value, the lock is free, the
\* key has no entry, and the dict, the links, the root and the size are what
\* they were when the call began; the same call made again invokes
\* user_function again.
C11_FailureLeavesNoEntry ==
  /\ Failed =>
       /\ lock = NoThread
       /\ ret[T1] = NoVal
       /\ AsBefore
       /\ (Caching => ~CacheHas(cache, K(call[T1])))
  /\ (Resting(T1) /\ IsCall(T1) /\ RepeatsFailed) =>
       /\ invoked = pre.invoked + 1
       /\ (Caching => ~pre.present)

\* C11's case: a bounded cache holds f(1); f(3) failed, was called again and
\* failed again.
C11_Witness ==
  /\ Bounded /\ Failed /\ RepeatsFailed
  /\ hist = <<F1, F3, F3>>
  /\ Cardinality(cache) = 1 /\ invoked = 3

\* C12: when user_function raises, misses is one more than when the call
\* began, and the key has no entry.
C12_FailedCallCountsAsMiss ==
  Failed =>
    /\ stats.misses = pre.misses + 1
    /\ (Caching => ~CacheHas(cache, K(call[T1])))

\* C13: in every mode, a call with an argument that has no hash never
\* reaches user_function; it ends with the exception, returning no value,
\* with the lock free and the dict, the links, the root and the counters
\* what they were when the call began.
C13_UnhashableArgumentFails ==
  (IsCall(T1) /\ Unhashable(call[T1])) =>
    /\ pc[T1] \in {"wait1", "in1", "raised"}
    /\ invoked = pre.invoked
    /\ pc[T1] = "raised" =>
         /\ lock = NoThread
         /\ ret[T1] = NoVal
         /\ AsBefore
         /\ stats.hits = pre.hits /\ stats.misses = pre.misses

\* The thread's operation is over, or the thread is Stuck and is running
\* user_function.
Completes(t) == Resting(t) \/ (t = Stuck /\ pc[t] = "compute")

\* C14: no thread holds the lock while it runs user_function; and under fair
\* scheduling, with one thread's user_function free never to return, every
\* operation any thread has begun (a call that hits or misses, cache_info,
\* cache_clear) ends, the stuck thread's own call excepted, which at least
\* reaches user_function.
C14_StuckComputationBlocksNobody ==
  /\ [](\A t \in Threads : pc[t] = "compute" => lock # t)
  /\ \A t \in Threads : (~Resting(t)) ~> Completes(t)

\* C14's case: a thread's bounded call is in user_function, and meanwhile the
\* other thread's cache_clear took the lock and returned.
C14_Witness ==
  /\ Bounded
  /\ pc[Stuck] = "compute" /\ path[Stuck].cleared /\ lock # Stuck
  /\ \E u \in Threads \ {Stuck} : pc[u] = "done" /\ call[u].kind = "clear"

\* The thread's next statement writes the dict, a link, the root or a counter.
AboutToWrite(t) ==
  pc[t] \in {"in2", "clear1", "clear2", "clear3", "set", "hit_write", "miss_write"}
    \/ (pc[t] = "in1" /\ CacheHas(cache, key[t]))

\* C15: in every mode, a thread whose next statement writes the dict, the
\* links or the counters holds the lock.
C15_WritesUnderGuard ==
  \A t \in Threads : AboutToWrite(t) => lock = t

\* The position in hist of the last cache_clear, 0 if there is none.
LastClear ==
  IF \E i \in 1..Len(hist) : hist[i].kind = "clear"
  THEN CHOOSE i \in 1..Len(hist) :
         /\ hist[i].kind = "clear"
         /\ \A j \in (i + 1)..Len(hist) : hist[j].kind # "clear"
  ELSE 0

\* The positions of the calls made since the last cache_clear.
CallsSinceClear == {i \in (LastClear + 1)..Len(hist) : hist[i].kind = "call"}

KeysSinceClear == {K(hist[i]) : i \in CallsSinceClear}

\* The number of different keys in S, by the dict's ==.
Different(S) == Cardinality({{b \in S : KeyEq(a, b)} : a \in S})

\* C16: in a sequential run of the unbounded cache, when an operation has
\* returned, the keys in the dict are the keys of the calls made since the
\* last cache_clear, the size is the number of different keys among them, and
\* a call whose key an earlier call since the last cache_clear had is a hit
\* that does not invoke user_function.
C16_UnboundedNeverEvicts ==
  (Unbounded /\ Settled) =>
    /\ SameKeys(KeysOf(cache), KeysSinceClear)
    /\ Cardinality(cache) = Different(KeysSinceClear)
    /\ (Last.kind = "call"
          /\ \E i \in CallsSinceClear \ {Len(hist)} : KeyEq(K(hist[i]), K(Last))) =>
         /\ pre.present
         /\ stats.hits = pre.hits + 1
         /\ stats.misses = pre.misses
         /\ invoked = pre.invoked
         /\ Cardinality(cache) = pre.currsize

\* C16's case: three different keys went into the unbounded cache and the
\* first was called again: all three are kept and the fourth call is a hit.
C16_Witness ==
  /\ Unbounded /\ Settled
  /\ hist = <<F1, F3, Fxy, F1>>
  /\ Cardinality(cache) = 3
  /\ stats.hits = 1 /\ stats.misses = 3

\* The ring's cells, the root left out.
RingCells == SeqRange(Ring(links, nonlocal_root))

\* Walking NEXT from the root comes back to the root, meeting no cell twice.
RingCloses ==
  LET ring == Ring(links, nonlocal_root)
  IN  /\ Cardinality(RingCells) = Len(ring)
      /\ nonlocal_root \notin RingCells
      /\ IF ring = <<>> THEN links[nonlocal_root].next = nonlocal_root
         ELSE links[ring[Len(ring)]].next = nonlocal_root

\* C17: in bounded mode, whenever no thread holds the lock, the ring walked
\* from the root closes and has as many cells as the dict has entries; every
\* entry's link is a cell of the ring carrying the entry's key, and every
\* cell's key leads in the dict to that very cell; NEXT and PREV are inverse
\* of each other on the root and the cells; the root has no key and no result.
C17_RingAndIndexAgree ==
  (Bounded /\ lock = NoThread) =>
    /\ RingCloses
    /\ Len(Ring(links, nonlocal_root)) = Cardinality(cache)
    /\ \A e \in cache : e.val \in RingCells /\ KeyEq(links[e.val].key, e.key)
    /\ \A i \in RingCells :
         CacheHas(cache, links[i].key) /\ cache_get(cache, links[i].key) = i
    /\ \A i \in RingCells \cup {nonlocal_root} :
         /\ links[i].next \in DOMAIN links /\ links[i].prev \in DOMAIN links
         /\ links[links[i].next].prev = i
         /\ links[links[i].prev].next = i
    /\ links[nonlocal_root].key = NoKey
    /\ links[nonlocal_root].result = NoVal

\* C17's case: a full cache of two entries after a recycling miss moved the
\* root to another cell.
C17_Witness ==
  /\ maxsize = 2 /\ lock = NoThread
  /\ Cardinality(cache) = 2 /\ stats.misses = 3
  /\ nonlocal_root # 0
  /\ \E t \in Threads : pc[t] = "done" /\ path[t].branch = "recycle"

Reverse(s) == [i \in 1..Len(s) |-> s[Len(s) + 1 - i]]

RECURSIVE Drop(_, _)
Drop(s, c) ==
  IF s = <<>> THEN <<>>
  ELSE IF Head(s) = c THEN Drop(Tail(s), c)
  ELSE <<Head(s)>> \o Drop(Tail(s), c)

\* The ring walked by NEXT carries the cached keys in the order of their last
\* access (insertion or hit), oldest first, and walked by PREV the reverse.
C18_Ordered ==
  (Bounded /\ lock = NoThread) =>
    LET ring == Ring(links, nonlocal_root)
    IN  /\ Len(ring) = Len(lru)
        /\ \A i \in 1..Len(ring) : KeyEq(links[ring[i]].key, lru[i])
        /\ RingBack(links, nonlocal_root) = Reverse(ring)

\* Thread t's step is a hit of the bounded wrapper.
C18_HitStep(t) == Bounded /\ pc[t] = "in1" /\ pc'[t] = "done"

\* The hit puts the key's cell last, just before the root, and leaves the
\* other cells in their order; the dict and misses are left alone, hits is
\* one more.
C18_HitEffect(t) ==
  LET link == cache_get(cache, key[t])
      ring == Ring(links, nonlocal_root)
  IN  /\ link \in SeqRange(ring)
      /\ Ring(links', nonlocal_root') = Append(Drop(ring, link), link)
      /\ links'[nonlocal_root'].prev = link
      /\ links'[link].next = nonlocal_root'
      /\ \A i \in SeqRange(ring) :
           links'[i].key = links[i].key /\ links'[i].result = links[i].result
      /\ cache' = cache
      /\ nonlocal_root' = nonlocal_root
      /\ stats'.misses = stats.misses
      /\ stats'.hits = stats.hits + 1

\* C18: in bounded mode, whenever no thread holds the lock, walking NEXT from
\* the root visits the cells in the order of their keys' last access
\* (insertion or hit), least recent first, and walking PREV visits them in the
\* reverse order; a hit moves its key's cell to just before the root, keeps
\* the other cells in their order, and leaves the dict, its size and misses
\* unchanged.
C18_RingOrderIsRecency ==
  [][(\A t \in Threads : C18_HitStep(t) => C18_HitEffect(t)) /\ C18_Ordered']_vars

\* C18's case: a hit moved the older of two cells behind the newer one.
C18_Witness ==
  /\ maxsize = 2 /\ lock = NoThread
  /\ Len(lru) = 2 /\ stats.hits = 1
  /\ \E t \in Threads :
       /\ pc[t] = "done" /\ path[t].branch = "hit"
       /\ links[Ring(links, nonlocal_root)[2]].result = ret[t]
       /\ links[Ring(links, nonlocal_root)[1]].result > ret[t]

\* Thread t's step is the end of a second locked section that found the key
\* already in the dict.
C19_RacedStep(t) ==
  /\ Bounded
  /\ pc[t] = "in2" /\ pc'[t] = "done"
  /\ CacheHas(cache, key[t])

C19_NoOp(t) ==
  /\ cache' = cache
  /\ links' = links
  /\ nonlocal_root' = nonlocal_root
  /\ Ring(links', nonlocal_root') = Ring(links, nonlocal_root)
  /\ links'[cache_get(cache', key[t])].result = links[cache_get(cache, key[t])].result
  /\ links[cache_get(cache, key[t])].result # result[t]
  /\ stats'.hits = stats.hits
  /\ stats'.misses = stats.misses + 1
  /\ ret'[t] = result[t]
  /\ result[t] = path[t].made /\ result[t] # NoVal

\* The value made by a call that found its key already inserted is in no link.
C19_NeverStored ==
  \A t \in Threads :
    (Bounded /\ pc[t] = "done" /\ path[t].branch = "raced") =>
      /\ ret[t] = path[t].made
      /\ \A i \in DOMAIN links : links[i].result # path[t].made

\* C19: in bounded mode, when a thread that missed takes the lock again and
\* finds its key in the dict, its step changes neither the dict, nor any
\* link (the stored result and the ring's order are kept, the key is not
\* moved), nor the root, nor hits; misses is one more; the thread returns the
\* result it computed, and that result is in no link then or afterwards.
C19_RacedInsertionIsNoOp ==
  [][(\A t \in Threads : C19_RacedStep(t) => C19_NoOp(t)) /\ C19_NeverStored']_vars

\* C19's case: a thread found its key inserted by the other and returned a
\* value that is not the stored one.
C19_Witness ==
  \E t \in Threads :
    /\ Bounded /\ pc[t] = "done" /\ path[t].branch = "raced"
    /\ Cardinality(cache) = 1 /\ stats.misses = 2 /\ stats.hits = 0
    /\ ret[t] = path[t].made
    /\ StoredResult(K(call[t])) # ret[t]

\* Thread t's call missed and cache_clear ran, in thread u, while t was away
\* from the lock; t's call has returned and u's last operation is a
\* cache_clear that has returned.
C20_ClearedInFlight(t, u) ==
  /\ Bounded /\ t # u
  /\ pc[t] = "done" /\ IsCall(t) /\ path[t].cleared
  /\ pc[u] = "done" /\ call[u].kind = "clear"

\* Thread t's step ends the second locked section of such a call, u having
\* done nothing since its cache_clear returned.
C20_InsertStep(t, u) ==
  /\ Bounded /\ t # u
  /\ pc[t] = "in2" /\ pc'[t] = "done" /\ path[t].cleared
  /\ pc[u] = "done" /\ call[u].kind = "clear"

\* Thread t returned the value it computed and inserted it as a new link:
\* the dict holds that one entry, the ring that one cell.
C20_Inserted(t) ==
  LET k == K(call[t])
      ring == Ring(links, nonlocal_root)
  IN  /\ path[t].made # NoVal /\ ret[t] = path[t].made
      /\ path[t].branch = "append" /\ path[t].size = 0
      /\ Cardinality(cache) = 1
      /\ CacheHas(cache, k)
      /\ ring = <<cache_get(cache, k)>>
      /\ RingBack(links, nonlocal_root) = ring
      /\ KeyEq(links[ring[1]].key, k)
      /\ links[ring[1]].result = ret[t]
      /\ links[nonlocal_root].key = NoKey /\ links[nonlocal_root].result = NoVal
      /\ stats = [hits |-> 0, misses |-> 1]

\* C20: in bounded mode, a call that missed before a cache_clear and takes
\* the lock again after it, nothing else having run since the clear, returns
\* the value it computed and inserts it as a new link: the dict then holds
\* that one entry, the ring is that one cell between the root and the root,
\* hits is 0 and misses is 1, whatever the dict held before the clear.
C20_ClearDuringComputation ==
  [][\A t, u \in Threads : C20_InsertStep(t, u) => C20_Inserted(t)']_vars

\* C20's case: a cache of capacity 1 was full when cache_clear ran during a
\* call's computation, and the call has returned and inserted its entry.
C20_Witness ==
  \E t, u \in Threads :
    /\ C20_ClearedInFlight(t, u)
    /\ maxsize = 1 /\ nops = 3
    /\ invoked = 2 /\ returned = 2
    /\ Cardinality(cache) = 1 /\ stats.misses = 1

\* The sum cache_info reports.
Total(s) == s.hits + s.misses

\* The thread is inside cache_clear's with block, the dict emptied and the
\* counters not yet reset.
Clearing(t) == pc[t] \in {"clear2", "clear3"}

\* Thread t's step is the one its call returns a value with.
C21_Returns(t) == IsCall(t) /\ pc[t] # "done" /\ pc'[t] = "done"

\* Thread t's step is the one cache_info takes its snapshot with.
C21_Reports(t) == pc[t] = "ininfo" /\ pc'[t] = "done"

\* Thread t's step is cache_clear's reset of the counters.
C21_Resets(t) == pc[t] = "clear3" /\ pc'[t] = "done"

\* The returning call is counted once: as a hit if it found its key, as a
\* miss if it ran user_function.
C21_CountedOnce(t) ==
  IF path'[t].branch = "hit"
  THEN stats' = [stats EXCEPT !.hits = @ + 1]
  ELSE /\ path'[t].branch \in {"raced", "recycle", "append"}
       /\ stats' = [stats EXCEPT !.misses = @ + 1]

C21_Step ==
  /\ (\A t \in Threads : ~Clearing(t)') => Total(stats') = counted'
  /\ \A t \in Threads :
       /\ C21_Reports(t) => info'[t].hits + info'[t].misses = counted
       /\ C21_Returns(t) => C21_CountedOnce(t)
  /\ stats' # stats =>
       \E t \in Threads : C21_Returns(t) \/ C21_Resets(t)
  /\ (stats'.hits < stats.hits \/ stats'.misses < stats.misses) =>
       \E t \in Threads : C21_Resets(t)

\* C21: in bounded mode, under any interleaving of calls and cache_clears,
\* hits + misses, in the counters whenever no cache_clear is half done and in
\* every cache_info, is the number of calls that have passed their counting
\* step since the last cache_clear; the step a call returns a value with
\* counts it once, as a hit or as a miss, no other step of a call changes a
\* counter, and a counter goes down only by cache_clear's reset.
C21_CallsCountedOnce == [][Bounded => C21_Step]_vars

\* C21's case: a cache_clear ran while a call was computing, the call then
\* took the lock again and was counted, and a cache_info after it reports
\* that one call.
C21_Witness ==
  \E t, u \in Threads :
    /\ Bounded /\ t # u
    /\ pc[t] = "done" /\ IsCall(t) /\ path[t].cleared
    /\ pc[u] = "done" /\ call[u].kind = "info"
    /\ info[u].hits = 0 /\ info[u].misses = 1
    /\ counted = 1

====
